---------------------------- MODULE Spec2Model ----------------------------
(***************************************************************************)
(* HomeSpan <-> HDMI-CEC bridge (src/homespan-hdmi-cec.ino).               *)
(*                                                                         *)
(* Two tasks share the single global `device`:                             *)
(*   - the Arduino main task: setup(), then loop() calling device.Run();   *)
(*     the CEC callbacks OnReady / OnReceiveComplete / OnTransmitComplete  *)
(*     are raised from inside Run();                                       *)
(*   - the HomeSpan poll task started by homeSpan.autoPoll(), whose        *)
(*     update() handlers call device.TransmitFrame().                      *)
(*                                                                         *)
(* The sketch's own code is modelled from the source.  The CEC_Device base *)
(* class (CEC_Device.h: Initialize, Run, TransmitFrame, LogicalAddress) is *)
(* not part of the source tree; its behaviour is modelled from spec.md     *)
(* sections 3, 4.3-4.5, 6 and 7.                                           *)
(***************************************************************************)
EXTENDS Integers, Sequences, FiniteSets, TLC

VARIABLES
  mainPc,        \* position of the main task: setup() steps, then loop/run
  polling,       \* TRUE once homeSpan.autoPoll() has started the poll task
  connectedTV,   \* MyCEC_Device::connectedTV: "null" or "tv"
  active,        \* HomeSpanTV::active value (power-on flag)
  activeID,      \* HomeSpanTV::activeID value (active input)
  volume,        \* HomeSpanTVSpeaker::volume value (last volume step)
  primaryState,  \* CEC_Device session state
  candIdx,       \* allocator: index of the candidate being polled
  logicalAddress,\* claimed logical address, NoAddress while none is held
  promiscuous,   \* promiscuous flag given to Initialize
  xmit,          \* the TransmissionAttempt occupying the state machine, or NoXmit
  ev,            \* the handler (callback or update()) that ran last, with its calls
  pollPc,        \* position of the poll task inside update()/TransmitFrame
  pollQ,         \* TransmitFrame calls the running update() still has to make
  pollIn,        \* the characteristic updates the running update() was called for
  initCount,     \* number of Initialize calls so far
  readyCount,    \* number of OnReady callbacks since the last Initialize
  polled         \* candidates polled since the last Initialize, with the ACK seen

vars == << mainPc, polling, connectedTV, active, activeID, volume, primaryState,
           candIdx, logicalAddress, promiscuous, xmit, ev,
           pollPc, pollQ, pollIn, initCount, readyCount, polled >>

-----------------------------------------------------------------------------
(* Bounds of the model *)

\* The configured maximum number of attempts of one transmission; the
\* value is a parameter of the retry policy.
MaxAttempts == 2

-----------------------------------------------------------------------------
(* Program constants *)

\* The bytes of the receive buffer OnReceiveComplete looks at: buffer[0],
\* buffer[1], buffer[2] (line 243 reads the last one).  A count of MaxCount
\* stands for every frame at least that long.
MaxCount == 3

\* #define CEC_PHYSICAL_ADDRESS 0x3000
CEC_PHYSICAL_ADDRESS == \h3000

\* CEC_Device::CDT_PLAYBACK_DEVICE, an enumerator of CEC_Device.h
CDT_PLAYBACK_DEVICE == 4

\* #define CEC_DEVICE_TYPE CEC_Device::CDT_PLAYBACK_DEVICE
CEC_DEVICE_TYPE == CDT_PLAYBACK_DEVICE

\* Broadcast logical address.
CLA_BROADCAST == 15

\* LogicalAddress() while no address is held.
NoAddress == -1

\* Type-ordered candidate logical addresses of a playback device.
Candidates == << 4, 8, 11 >>

NoXmit == [hdr |-> -1, buf |-> << >>, attempts |-> 0]

\* A TransmitFrame(targetAddress, buffer, count) call as issued by the sketch.
Call(dest, buf, count) == [dest |-> dest, buf |-> buf, count |-> count]

-----------------------------------------------------------------------------
(* Inputs *)

\* Header bytes of inbound frames: TV -> each candidate, another source -> 4,
\* TV -> broadcast.
HeaderBytes == { \h04, \h08, \h0B, \h14, \h0F }

\* Opcode bytes of inbound frames.
OpcodeBytes == { \h83, \h8C, \h46, \h90, \h36 }

\* Operand bytes of inbound frames.
OperandBytes == { \h00, \h01 }

ByteAt(i) == IF i = 1 THEN HeaderBytes ELSE IF i = 2 THEN OpcodeBytes ELSE OperandBytes

\* The receive buffer as OnReceiveComplete sees it: MaxCount bytes of memory
\* of which the first `count` belong to the frame; the others hold whatever
\* was there before.
Buffers == { b \in [1..MaxCount -> HeaderBytes \cup OpcodeBytes \cup OperandBytes] :
               \A i \in 1..MaxCount : b[i] \in ByteAt(i) }

\* A characteristic as update() sees it: updated() and getNewVal().
Upd(v) == [updated |-> TRUE, newVal |-> v]
Unch == [updated |-> FALSE, newVal |-> 0]

SpeakerIn(vol, vt) == [svc |-> "speaker", volume |-> vol, volumeType |-> vt]

TVIn(a, id, sk, key) ==
  [svc |-> "tv", active |-> a, activeID |-> id, settingsKey |-> sk, remoteKey |-> key]

NoIntent == [svc |-> "none"]

\* Inbound frames: every buffer with every length 0..MaxCount.
AllFrames == { [buf |-> b, count |-> n] : b \in Buffers, n \in 0..MaxCount }

\* Writes to the speaker: volume up (0), volume down (1), the volume type.
SpeakerIntents ==
  { SpeakerIn(v, t) : v \in {Unch, Upd(0), Upd(1)}, t \in {Unch, Upd(3)} }
    \ { SpeakerIn(Unch, Unch) }

\* Writes to the television's power characteristic.
PowerIntents == { TVIn(Upd(a), Unch, Unch, Unch) : a \in {0, 1} }

\* A few inbound frames: a power report and two queries.
FewFrames ==
  { [buf |-> << \h04, \h90, \h00 >>, count |-> 3],
    [buf |-> << \h04, \h83, \h00 >>, count |-> 2],
    [buf |-> << \h08, \h8C, \h01 >>, count |-> 2] }

\* Inbound frames about the power state: the power report "on", the power
\* report "standby" and <Standby>, each to the first two candidates.
PowerFrames ==
  { [buf |-> << h, \h90, \h00 >>, count |-> 3] : h \in { \h04, \h08 } }
    \cup { [buf |-> << h, \h90, \h01 >>, count |-> 3] : h \in { \h04, \h08 } }
    \cup { [buf |-> << h, \h36, \h00 >>, count |-> 2] : h \in { \h04, \h08 } }

\* The remote keys update() knows, and some it does not.
MappedKeys == { 4, 5, 6, 7, 8, 9, 11, 15 }
UnmappedKeys == { 0, 10, 16 }

\* Writes to the television: power, a remote key, both in one write, the
\* input source, the settings key.
TVIntents ==
  PowerIntents
    \cup { TVIn(Unch, Unch, Unch, Upd(k)) : k \in MappedKeys \cup UnmappedKeys }
    \cup { TVIn(Upd(a), Unch, Unch, Upd(k)) : a \in {0, 1}, k \in {4, 10} }
    \cup { TVIn(Unch, Upd(1), Unch, Unch), TVIn(Unch, Unch, Upd(0), Unch) }

\* A single kind of write: volume up.
VolumeUpIntents == { SpeakerIn(Upd(0), Unch) }

-----------------------------------------------------------------------------
(* The sketch's handlers, as functions from their inputs to the            *)
(* TransmitFrame calls they issue and the application state they leave.    *)
(* C arrays are 0-based, the sequences here 1-based: buffer[k] is buf[k+1]. *)

\* <Report Physical Address> payload built at lines 74 and 228.
ReportPhysicalAddress ==
  << \h84, CEC_PHYSICAL_ADDRESS \div 256, CEC_PHYSICAL_ADDRESS % 256, CEC_DEVICE_TYPE >>

\* OnReady sending the physical address low byte first.
OnReady_LowByteFirst(la) ==
  << Call(\h0F, << \h84, CEC_PHYSICAL_ADDRESS % 256, CEC_PHYSICAL_ADDRESS \div 256,
                   CEC_DEVICE_TYPE >>, 4) >>

\* MyCEC_Device::OnReady: the calls it issues.
OnReady(la) == << Call(\h0F, ReportPhysicalAddress, 4) >>

\* OnTransmitComplete sending the frame again when it was not acknowledged.
OnTransmitComplete_Resend(buffer, count, ack) ==
  IF ack THEN << >> ELSE << Call(buffer[1] % 16, Tail(buffer), count - 1) >>

\* MyCEC_Device::OnTransmitComplete: diagnostics only, issues no call.
OnTransmitComplete(buffer, count, ack) == << >>

\* update() with the two volume opcodes exchanged.
HomeSpanTVSpeaker_update_Swapped(in) ==
  [ calls |-> IF in.volume.updated
                THEN IF in.volume.newVal = 0
                       THEN << Call(\h40, << \h8F >>, 1) >>
                       ELSE << Call(\h40, << \h46 >>, 1) >>
                ELSE << >>,
    ret   |-> TRUE ]

\* HomeSpanTVSpeaker::update.  in.volume / in.volumeType say whether the
\* characteristic was updated and give its new value.
HomeSpanTVSpeaker_update(in) ==
  [ calls |-> IF in.volume.updated
                THEN IF in.volume.newVal = 0
                       THEN << Call(\h40, << \h46 >>, 1) >>
                       ELSE << Call(\h40, << \h8F >>, 1) >>
                ELSE << >>,
    ret   |-> TRUE ]

\* The switch on remoteKey->getNewVal() of HomeSpanTV::update.
\* The switch with a default branch that sends <User Control Pressed> Select.
RemoteKeyCalls_DefaultSelect(key) ==
  CASE key = 4  -> << Call(\h48, << \h44, \h01 >>, 2) >>
    [] key = 5  -> << Call(\h48, << \h44, \h02 >>, 2) >>
    [] key = 6  -> << Call(\h48, << \h44, \h03 >>, 2) >>
    [] key = 7  -> << Call(\h48, << \h44, \h04 >>, 2) >>
    [] key = 8  -> << Call(\h48, << \h44, \h44 >>, 2) >>
    [] key = 9  -> << Call(\h48, << \h44, \h09 >>, 2) >>
    [] key = 11 -> << Call(\h48, << \h44, \h44 >>, 2) >>
    [] key = 15 -> << Call(\h48, << \h44, \h35 >>, 2) >>
    [] OTHER    -> << Call(\h48, << \h44, \h00 >>, 2) >>

\* The switch with the cases of LEFT and RIGHT falling through to the next
\* case for want of a break, so that each sends two frames.
RemoteKeyCalls_FallThrough(key) ==
  CASE key = 4  -> << Call(\h48, << \h44, \h01 >>, 2) >>
    [] key = 5  -> << Call(\h48, << \h44, \h02 >>, 2) >>
    [] key = 6  -> << Call(\h48, << \h44, \h03 >>, 2), Call(\h48, << \h44, \h04 >>, 2) >>
    [] key = 7  -> << Call(\h48, << \h44, \h04 >>, 2), Call(\h48, << \h44, \h44 >>, 2) >>
    [] key = 8  -> << Call(\h48, << \h44, \h44 >>, 2) >>
    [] key = 9  -> << Call(\h48, << \h44, \h09 >>, 2) >>
    [] key = 11 -> << Call(\h48, << \h44, \h44 >>, 2) >>
    [] key = 15 -> << Call(\h48, << \h44, \h35 >>, 2) >>
    [] OTHER    -> << >>

\* HomeSpanTV::update lines 149-193: the switch on the remote key.
RemoteKeyCalls(key) ==
  CASE key = 4  -> << Call(\h48, << \h44, \h01 >>, 2) >>
    [] key = 5  -> << Call(\h48, << \h44, \h02 >>, 2) >>
    [] key = 6  -> << Call(\h48, << \h44, \h03 >>, 2) >>
    [] key = 7  -> << Call(\h48, << \h44, \h04 >>, 2) >>
    [] key = 8  -> << Call(\h48, << \h44, \h44 >>, 2) >>
    [] key = 9  -> << Call(\h48, << \h44, \h09 >>, 2) >>
    [] key = 11 -> << Call(\h48, << \h44, \h44 >>, 2) >>
    [] key = 15 -> << Call(\h48, << \h44, \h35 >>, 2) >>
    [] OTHER    -> << >>

\* HomeSpanTV::update with the two power frames interchanged.
HomeSpanTV_update_PowerSwapped(in) ==
  [ calls |-> (IF in.active.updated
                 THEN IF in.active.newVal # 0
                        THEN << Call(\h0F, << \h36 >>, 1) >>
                        ELSE << Call(\h00, << \h0D >>, 1) >>
                 ELSE << >>)
              \o (IF in.remoteKey.updated THEN RemoteKeyCalls(in.remoteKey.newVal) ELSE << >>),
    ret   |-> TRUE ]

\* HomeSpanTV::update.
HomeSpanTV_update(in) ==
  [ calls |-> (IF in.active.updated
                 THEN IF in.active.newVal # 0
                        THEN << Call(\h00, << \h0D >>, 1) >>
                        ELSE << Call(\h0F, << \h36 >>, 1) >>
                 ELSE << >>)
              \o (IF in.remoteKey.updated THEN RemoteKeyCalls(in.remoteKey.newVal) ELSE << >>),
    ret   |-> TRUE ]

\* OnReceiveComplete without the test of the destination nibble.
ReceiveForUs_NoFilter(buffer, count, la) == count >= 1

\* OnReceiveComplete lines 217-223: the frame is handled only when its
\* destination nibble is LogicalAddress() and it is not empty.
ReceiveForUs(buffer, count, la) ==
  IF (buffer[1] % 16) # la THEN FALSE
  ELSE IF count < 1 THEN FALSE
  ELSE TRUE

\* The switch answering <Give Physical Address> to the requester instead of
\* to the broadcast address.
ReceiveReply_ToSender(buffer) ==
  CASE buffer[2] = \h83 -> << Call(buffer[1] \div 16, ReportPhysicalAddress, 4) >>
    [] buffer[2] = \h8C -> << Call(\h0F, << \h87, \h01, \h23, \h45 >>, 4) >>
    [] buffer[2] = \h46 -> << Call(\h4F, << \h47, \h52, \h44, \h4D >>, 4) >>
    [] OTHER            -> << >>

\* OnReceiveComplete lines 226-239: the switch on buffer[1].
ReceiveReply(buffer) ==
  CASE buffer[2] = \h83 -> << Call(\h0F, ReportPhysicalAddress, 4) >>
    [] buffer[2] = \h8C -> << Call(\h0F, << \h87, \h01, \h23, \h45 >>, 4) >>
    [] buffer[2] = \h46 -> << Call(\h4F, << \h47, \h52, \h44, \h4D >>, 4) >>
    [] OTHER            -> << >>

\* OnReceiveComplete lines 241-246: whether connectedTV->active->setVal(true)
\* is executed.
ReceivePowerOn(buffer) ==
  buffer[1] = \h04 /\ buffer[2] = \h90 /\ buffer[3] = \h00

\* The indices, counted from 0 as in the source, at which OnReceiveComplete
\* reads `buffer`: buffer[0] for the diagnostic line 210 and the address test
\* of line 218, the loop of line 211 up to count - 1, buffer[1] in the switch
\* of line 226 and in line 241, buffer[2] in line 243 once line 241 holds.
\* (The sequence `buffer` is indexed from 1 here, buffer[0] being buffer[1].)
ReceiveReads(buffer, count, la) ==
  {0} \cup (0..(count - 1))
      \cup ( IF ReceiveForUs(buffer, count, la)
               THEN {1} \cup (IF buffer[1] = \h04 /\ buffer[2] = \h90 THEN {2} ELSE {})
               ELSE {} )

\* OnReceiveComplete taking the operand of the power report as the new power
\* state, so that a report other than "on" clears the flag.
OnReceiveComplete_FollowsReport(buffer, count, ack, la, st) ==
  IF ~ReceiveForUs(buffer, count, la)
    THEN [calls |-> << >>, st |-> st, deref |-> FALSE]
    ELSE [ calls |-> ReceiveReply(buffer),
           st    |-> IF buffer[1] = \h04 /\ buffer[2] = \h90
                       THEN [st EXCEPT !.active = IF buffer[3] = \h00 THEN 1 ELSE 0]
                       ELSE st,
           deref |-> buffer[1] = \h04 /\ buffer[2] = \h90 ]

\* MyCEC_Device::OnReceiveComplete.  `la` is LogicalAddress(), `st` the
\* application state [active, activeID, volume].  The result gives the calls
\* issued, the application state left and whether connectedTV was
\* dereferenced.
OnReceiveComplete(buffer, count, ack, la, st) ==
  IF ~ReceiveForUs(buffer, count, la)
    THEN [calls |-> << >>, st |-> st, deref |-> FALSE]
    ELSE [ calls |-> ReceiveReply(buffer),
           st    |-> IF ReceivePowerOn(buffer) THEN [st EXCEPT !.active = 1] ELSE st,
           deref |-> ReceivePowerOn(buffer) ]

-----------------------------------------------------------------------------
(* The CEC_Device engine (modelled from spec.md) *)

\* Frame built by transmitFrame: high nibble source, low nibble destination.
Frame(la, call) ==
  [ hdr      |-> (la * 16 + (call.dest % 16)) % 256,
    buf      |-> SubSeq(call.buf, 1, call.count),
    attempts |-> 0 ]

\* transmitFrame taking a frame whenever the transmission slot is free,
\* whether or not the session holds an address.
TransmitAccepts_AnyState(ps, x) == x = NoXmit

\* transmitFrame succeeds when the session holds an address and no other
\* TransmissionAttempt occupies the state machine.
TransmitAccepts(ps, x) == ps = "ready" /\ x = NoXmit

\* The state machine's transmission slot after a handler running inside
\* Run() has issued `calls` in order.
RECURSIVE TransmitAll(_, _, _, _)
TransmitAll(ps, la, x, calls) ==
  IF calls = << >> THEN x
  ELSE TransmitAll(ps, la,
                   IF TransmitAccepts(ps, x) THEN Frame(la, Head(calls)) ELSE x,
                   Tail(calls))

\* A directed frame is one not sent to the broadcast address.
Directed(hdr) == hdr % 16 # CLA_BROADCAST

\* A transmission is retried while it has used fewer than MaxAttempts attempts.
RetryAllowed(attempts) == attempts < MaxAttempts

\* The allocator reading the poll's acknowledgement the wrong way round.
AddressInUse_Inverted(pollAck) == ~pollAck

\* The allocator moves to the next candidate when the poll was ACKed.
AddressInUse(pollAck) == pollAck

\* Result of one allocation run on a bus where `occ` are the addresses held
\* by other devices: the first free candidate, NoAddress when none is free.
RECURSIVE AllocFrom(_, _)
AllocFrom(i, occ) ==
  IF i > Len(Candidates) THEN NoAddress
  ELSE IF Candidates[i] \in occ THEN AllocFrom(i + 1, occ)
  ELSE Candidates[i]

-----------------------------------------------------------------------------
(* State *)

AppState == [active |-> active, activeID |-> activeID, volume |-> volume]

AppInit == [active |-> 0, activeID |-> 3, volume |-> 0]

\* An event: the handler `op` ran with these arguments (`in` for an update(),
\* `la` for OnReady, `buf`/`count`/`ack` for the frame callbacks, `attempts`
\* the attempts the completed transmission used), issued `calls`, and took the
\* application state from `before` to `after`.  `ret` is what an update()
\* returned (TRUE for the callbacks, which return nothing).
Event(op, in, la, buf, count, ack, attempts, calls, before, after, ret) ==
  [ op |-> op, in |-> in, la |-> la, buf |-> buf, count |-> count, ack |-> ack,
    attempts |-> attempts, calls |-> calls, before |-> before, after |-> after,
    ret |-> ret ]

NoEvent ==
  Event("none", NoIntent, NoAddress, << >>, 0, FALSE, 0, << >>, AppInit, AppInit, TRUE)

Init ==
  /\ mainPc = "init1"
  /\ polling = FALSE
  /\ connectedTV = "null"
  /\ active = 0
  /\ activeID = 3
  /\ volume = 0
  /\ primaryState = "uninit"
  /\ candIdx = 1
  /\ logicalAddress = NoAddress
  /\ promiscuous = FALSE
  /\ xmit = NoXmit
  /\ ev = NoEvent
  /\ pollPc = "idle"
  /\ pollQ = << >>
  /\ pollIn = NoIntent
  /\ initCount = 0
  /\ readyCount = 0
  /\ polled = << >>

appVars == << active, activeID, volume >>
pollVars == << pollPc, pollQ, pollIn >>
engineVars == << primaryState, candIdx, logicalAddress, promiscuous, xmit,
                 initCount, readyCount, polled >>

-----------------------------------------------------------------------------
(* setup() *)

\* Initialize going on from the candidate after the current one when it is
\* called again during an allocation.
Initialize_Continue(physicalAddress, type, promisc) ==
  /\ primaryState' = "allocating"
  /\ candIdx' = IF primaryState = "allocating" THEN candIdx + 1 ELSE 1
  /\ logicalAddress' = NoAddress
  /\ promiscuous' = promisc
  /\ xmit' = NoXmit
  /\ initCount' = initCount + 1
  /\ readyCount' = 0
  /\ polled' = << >>

\* CEC_Device::Initialize(physicalAddress, type, promiscuous): (re)starts
\* address allocation from the first candidate.
Initialize(physicalAddress, type, promisc) ==
  /\ primaryState' = "allocating"
  /\ candIdx' = 1
  /\ logicalAddress' = NoAddress
  /\ promiscuous' = promisc
  /\ xmit' = NoXmit
  /\ initCount' = initCount + 1
  /\ readyCount' = 0
  /\ polled' = << >>

\* line 258: first device.Initialize
SetupInitialize1 ==
  /\ mainPc = "init1"
  /\ Initialize(CEC_PHYSICAL_ADDRESS, CEC_DEVICE_TYPE, TRUE)
  /\ mainPc' = "services"
  /\ UNCHANGED << polling, connectedTV, appVars, ev, pollVars >>

\* MyCEC_Device::SetTVDevice
SetTVDevice(tv) == connectedTV' = tv

\* setup() without the call of line 290.
SetupServices_NoSetTVDevice ==
  /\ mainPc = "services"
  /\ mainPc' = "init2"
  /\ UNCHANGED << polling, connectedTV, appVars, engineVars, ev, pollVars >>

\* lines 260-290: the services are constructed and the TV handed to the device
SetupServices ==
  /\ mainPc = "services"
  /\ SetTVDevice("tv")
  /\ mainPc' = "init2"
  /\ UNCHANGED << polling, appVars, engineVars, ev, pollVars >>

\* line 293: second device.Initialize
SetupInitialize2 ==
  /\ mainPc = "init2"
  /\ Initialize(CEC_PHYSICAL_ADDRESS, CEC_DEVICE_TYPE, TRUE)
  /\ mainPc' = "autoPoll"
  /\ UNCHANGED << polling, connectedTV, appVars, ev, pollVars >>

\* line 294: homeSpan.autoPoll() starts the poll task
SetupAutoPoll ==
  /\ mainPc = "autoPoll"
  /\ polling' = TRUE
  /\ mainPc' = "loop"
  /\ UNCHANGED << connectedTV, appVars, engineVars, ev, pollVars >>

-----------------------------------------------------------------------------
(* loop(): device.Run() and the callbacks it raises *)

\* loop() calls device.Run()
RunEnter ==
  /\ mainPc = "loop"
  /\ mainPc' = "run"
  /\ ev' = NoEvent
  /\ UNCHANGED << polling, connectedTV, appVars, engineVars, pollVars >>

\* The allocator starting over at the first candidate when the last one is
\* in use.
RunAllocate_WrapAround ==
  /\ mainPc = "run"
  /\ primaryState = "allocating"
  /\ \E pollAck \in BOOLEAN :
       LET c == Candidates[candIdx] IN
       /\ polled' = Append(polled, [addr |-> c, ack |-> pollAck])
       /\ IF AddressInUse(pollAck)
            THEN /\ candIdx' = IF candIdx < Len(Candidates) THEN candIdx + 1 ELSE 1
                 /\ primaryState' = IF Len(polled) < 2 * Len(Candidates)
                                      THEN primaryState ELSE "failed"
                 /\ ev' = NoEvent
                 /\ UNCHANGED << logicalAddress, xmit, readyCount >>
            ELSE LET calls == OnReady(c) IN
                 /\ logicalAddress' = c
                 /\ primaryState' = "ready"
                 /\ readyCount' = readyCount + 1
                 /\ xmit' = TransmitAll("ready", c, xmit, calls)
                 /\ ev' = Event("OnReady", NoIntent, c, << >>, 0, FALSE, 0, calls,
                                AppState, AppState, TRUE)
                 /\ UNCHANGED candIdx
  /\ mainPc' = "loop"
  /\ UNCHANGED << polling, connectedTV, appVars, promiscuous, initCount, pollVars >>

\* Run() while allocating: poll the current candidate with a frame addressed
\* to itself; claim it when nobody ACKs, else go on to the next candidate.
RunAllocate ==
  /\ mainPc = "run"
  /\ primaryState = "allocating"
  /\ \E pollAck \in BOOLEAN :
       LET c == Candidates[candIdx] IN
       /\ polled' = Append(polled, [addr |-> c, ack |-> pollAck])
       /\ IF AddressInUse(pollAck)
            THEN /\ IF candIdx < Len(Candidates)
                      THEN candIdx' = candIdx + 1 /\ primaryState' = primaryState
                      ELSE candIdx' = candIdx /\ primaryState' = "failed"
                 /\ ev' = NoEvent
                 /\ UNCHANGED << logicalAddress, xmit, readyCount >>
            ELSE LET calls == OnReady(c) IN
                 /\ logicalAddress' = c
                 /\ primaryState' = "ready"
                 /\ readyCount' = readyCount + 1
                 /\ xmit' = TransmitAll("ready", c, xmit, calls)
                 /\ ev' = Event("OnReady", NoIntent, c, << >>, 0, FALSE, 0, calls,
                                AppState, AppState, TRUE)
                 /\ UNCHANGED candIdx
  /\ mainPc' = "loop"
  /\ UNCHANGED << polling, connectedTV, appVars, promiscuous, initCount, pollVars >>

\* Run() with a transmission pending: one attempt.  The transmission ends
\* on an ACK, or failed when the retry budget is used up; OnTransmitComplete
\* is raised when it ends.
RunTransmit ==
  /\ mainPc = "run"
  /\ primaryState = "ready"
  /\ xmit # NoXmit
  /\ \E ack \in BOOLEAN :
       LET n == xmit.attempts + 1 IN
       IF ack \/ ~RetryAllowed(n)
         THEN LET frame == << xmit.hdr >> \o xmit.buf
                  calls == OnTransmitComplete(frame, Len(frame), ack)
              IN  /\ xmit' = TransmitAll(primaryState, logicalAddress, NoXmit, calls)
                  /\ ev' = Event("OnTransmitComplete", NoIntent, logicalAddress, frame,
                                 Len(frame), ack, n, calls, AppState, AppState, TRUE)
         ELSE /\ xmit' = [xmit EXCEPT !.attempts = n]
              /\ ev' = NoEvent
  /\ mainPc' = "loop"
  /\ UNCHANGED << polling, connectedTV, appVars, primaryState, candIdx, logicalAddress,
                  promiscuous, initCount, readyCount, polled, pollVars >>

\* Whether the engine hands a received frame to OnReceiveComplete.
Delivered(f) ==
  \/ promiscuous
  \/ f.count >= 1 /\ f.buf[1] % 16 \in {logicalAddress, CLA_BROADCAST}

\* Run() completing the reception of a frame.  The ack flag only reaches the
\* diagnostic output of OnReceiveComplete.  Dereferencing connectedTV while it
\* is null ends the main task.
RunReceive(frames) ==
  /\ mainPc = "run"
  /\ primaryState \in {"allocating", "ready", "failed"}
  /\ \E f \in frames, ack \in BOOLEAN :
       IF Delivered(f)
         THEN LET r == OnReceiveComplete(f.buf, f.count, ack, logicalAddress, AppState) IN
              /\ active' = r.st.active
              /\ activeID' = r.st.activeID
              /\ volume' = r.st.volume
              /\ xmit' = TransmitAll(primaryState, logicalAddress, xmit, r.calls)
              /\ ev' = Event("OnReceiveComplete", NoIntent, logicalAddress, f.buf, f.count,
                             FALSE, 0, r.calls, AppState, r.st, TRUE)
              /\ mainPc' = IF r.deref /\ connectedTV = "null" THEN "crashed" ELSE "loop"
         ELSE /\ ev' = NoEvent
              /\ mainPc' = "loop"
              /\ UNCHANGED << appVars, xmit >>
  /\ UNCHANGED << polling, connectedTV, primaryState, candIdx, logicalAddress,
                  promiscuous, initCount, readyCount, polled, pollVars >>

\* Run() with nothing to do on this tick.
RunIdle ==
  /\ mainPc = "run"
  /\ mainPc' = "loop"
  /\ UNCHANGED << polling, connectedTV, appVars, engineVars, ev, pollVars >>

-----------------------------------------------------------------------------
(* The HomeSpan poll task *)

\* HomeSpan stores the new values once update() has returned true.
Commit(in, ret) ==
  IF ~ret THEN UNCHANGED appVars
  ELSE IF in.svc = "speaker"
    THEN /\ volume' = IF in.volume.updated THEN in.volume.newVal ELSE volume
         /\ UNCHANGED << active, activeID >>
  ELSE /\ active' = IF in.active.updated THEN in.active.newVal ELSE active
       /\ activeID' = IF in.activeID.updated THEN in.activeID.newVal ELSE activeID
       /\ UNCHANGED volume

\* update() returning what its last TransmitFrame call returned.
NextCall_ReturnsOutcome(in, ok) ==
  /\ pollQ' = Tail(pollQ)
  /\ IF Tail(pollQ) = << >>
       THEN pollPc' = "idle" /\ pollIn' = NoIntent /\ Commit(in, ok)
       ELSE pollPc' = "check" /\ pollIn' = pollIn /\ UNCHANGED appVars

\* The running update() goes on after a TransmitFrame call has returned
\* `ok`: the return value is not looked at, the next call is made, and after
\* the last one update() returns true.
NextCall(in, ok) ==
  /\ pollQ' = Tail(pollQ)
  /\ IF Tail(pollQ) = << >>
       THEN pollPc' = "idle" /\ pollIn' = NoIntent /\ Commit(in, TRUE)
       ELSE pollPc' = "check" /\ pollIn' = pollIn /\ UNCHANGED appVars

\* A HomeKit write arrives: the poll task calls the service's update().
PollUpdate(intents) ==
  /\ polling
  /\ pollPc = "idle"
  /\ \E in \in intents :
       LET r == IF in.svc = "speaker" THEN HomeSpanTVSpeaker_update(in)
                                      ELSE HomeSpanTV_update(in)
       IN  /\ ev' = Event(in.svc, in, logicalAddress, << >>, 0, FALSE, 0, r.calls,
                          AppState, AppState, r.ret)
           /\ pollQ' = r.calls
           /\ IF r.calls = << >>
                THEN pollPc' = "idle" /\ pollIn' = NoIntent /\ Commit(in, r.ret)
                ELSE pollPc' = "check" /\ pollIn' = in /\ UNCHANGED appVars
  /\ UNCHANGED << mainPc, polling, connectedTV, engineVars >>

\* device.TransmitFrame called from update(): it first looks whether the
\* state machine can take the frame ...
TransmitFrameCheck ==
  /\ pollPc = "check"
  /\ IF TransmitAccepts(primaryState, xmit)
       THEN pollPc' = "write" /\ UNCHANGED << pollQ, pollIn, appVars >>
       ELSE NextCall(pollIn, FALSE)
  /\ UNCHANGED << mainPc, polling, connectedTV, engineVars, ev >>

\* ... and then stores the frame in the state machine's transmission slot.
TransmitFrameWrite ==
  /\ pollPc = "write"
  /\ xmit' = Frame(logicalAddress, Head(pollQ))
  /\ NextCall(pollIn, TRUE)
  /\ UNCHANGED << mainPc, polling, connectedTV, primaryState, candIdx, logicalAddress,
                  promiscuous, initCount, readyCount, polled, ev >>

-----------------------------------------------------------------------------
(* Specification *)

Next ==
  \/ SetupInitialize1
  \/ SetupServices
  \/ SetupInitialize2
  \/ SetupAutoPoll
  \/ RunEnter
  \/ RunAllocate
  \/ RunTransmit
  \/ RunReceive(AllFrames)
  \/ RunIdle
  \/ PollUpdate(VolumeUpIntents)
  \/ TransmitFrameCheck
  \/ TransmitFrameWrite

\* The program with every inbound frame and one kind of HomeKit write.
Spec == Init /\ [][Next]_vars

\* setup() runs to its end and loop() calls Run() for ever; a pending
\* allocation poll or transmission attempt gets the bus again and again,
\* although receptions may come first.
SpecFair ==
  /\ Spec
  /\ WF_vars(SetupInitialize1 \/ SetupServices \/ SetupInitialize2 \/ SetupAutoPoll)
  /\ WF_vars(RunEnter)
  /\ SF_vars(RunAllocate)
  /\ SF_vars(RunTransmit)

NextIntents ==
  \/ SetupInitialize1
  \/ SetupServices
  \/ SetupInitialize2
  \/ SetupAutoPoll
  \/ RunEnter
  \/ RunAllocate
  \/ RunTransmit
  \/ RunReceive(FewFrames)
  \/ RunIdle
  \/ PollUpdate(SpeakerIntents \cup PowerIntents)
  \/ TransmitFrameCheck
  \/ TransmitFrameWrite

\* The program with the speaker and power writes and a few inbound frames.
SpecIntents == Init /\ [][NextIntents]_vars

NextKeys ==
  \/ SetupInitialize1
  \/ SetupServices
  \/ SetupInitialize2
  \/ SetupAutoPoll
  \/ RunEnter
  \/ RunAllocate
  \/ RunTransmit
  \/ RunReceive(PowerFrames)
  \/ RunIdle
  \/ PollUpdate(TVIntents \cup SpeakerIntents)
  \/ TransmitFrameCheck
  \/ TransmitFrameWrite

\* The program with every write to the television and to its speaker, and
\* the frames about the power state.
SpecKeys == Init /\ [][NextKeys]_vars

-----------------------------------------------------------------------------
(* Properties *)

\* The logical addresses the device can hold.
Claimed(la) == \E i \in 1..Len(Candidates) : Candidates[i] = la

\* The <Report Physical Address> frame of physical address 0x3000: opcode
\* 0x84, high byte 0x30, low byte 0x00, device type playback.
ReportCall == Call(15, << 132, 48, 0, CDT_PLAYBACK_DEVICE >>, 4)

\* C1: whenever OnReady(logicalAddress) fires, for any allocated address, the
\* bridge issues exactly one TransmitFrame call: to 0xF, with the 4-byte
\* payload {0x84, 0x30, 0x00, playback type}.
C1_OnReadyReportsPhysicalAddress ==
  ev.op = "OnReady" => Claimed(ev.la) /\ ev.calls = << ReportCall >>

\* C1 witness: OnReady fired for an address other than the first candidate.
C1_Witness ==
  ev.op = "OnReady" /\ ev.la = 8 /\ Len(ev.calls) = 1

\* C2: every inbound frame whose destination nibble is the claimed logical
\* address and whose opcode byte is 0x83 makes OnReceiveComplete issue a
\* TransmitFrame to 0xF with the on-ready payload {0x84, 0x30, 0x00, type}.
C2_GivePhysicalAddressAnswered ==
  ( /\ ev.op = "OnReceiveComplete"
    /\ Claimed(ev.la)
    /\ ev.count >= 2
    /\ ev.buf[1] % 16 = ev.la
    /\ ev.buf[2] = 131 )
  => \E i \in 1..Len(ev.calls) : ev.calls[i] = ReportCall

\* C2 witness: <Give Physical Address> from the peer at address 1 delivered
\* to the device holding address 4.
C2_Witness ==
  /\ ev.op = "OnReceiveComplete"
  /\ ev.la = 4
  /\ ev.count = 2
  /\ ev.buf[1] = 20
  /\ ev.buf[2] = 131
  /\ ev.calls # << >>

\* C3: for every logical address the device may hold, a frame from the peer
\* at address 0 addressed to the device, with opcode 0x90 and operand 0x00,
\* leaves the power-on flag true.
C3_PowerReportSetsActive ==
  ( /\ ev.op = "OnReceiveComplete"
    /\ Claimed(ev.la)
    /\ ev.count >= 3
    /\ ev.buf[1] = ev.la
    /\ ev.buf[2] = 144
    /\ ev.buf[3] = 0 )
  => ev.after.active = 1

\* C4: a volume-up write (new value 0) makes the speaker's update() issue
\* exactly one TransmitFrame of {0x46} to 0x40, a volume-down write exactly
\* one of {0x8F} to 0x40, and update() issues no other frame.
C4_VolumeFrames ==
  ev.op = "speaker" =>
    /\ (ev.in.volume.updated /\ ev.in.volume.newVal = 0
          => ev.calls = << Call(64, << 70 >>, 1) >>)
    /\ (ev.in.volume.updated /\ ev.in.volume.newVal # 0
          => ev.calls = << Call(64, << 143 >>, 1) >>)
    /\ (~ev.in.volume.updated => ev.calls = << >>)

\* C4 witness: a volume-down write arriving together with a volume-type write.
C4_Witness ==
  /\ ev.op = "speaker"
  /\ ev.in.volume = Upd(1)
  /\ ev.in.volumeType.updated
  /\ Len(ev.calls) = 1

\* C5: for every inbound frame whose destination nibble is not the claimed
\* logical address, OnReceiveComplete leaves the application state (power-on
\* flag, active input, volume) unchanged and issues no TransmitFrame.  The
\* statement does not depend on the promiscuous flag; the sketch always
\* initialises the device promiscuous, so such frames are delivered.
C5_ForeignFramesIgnored ==
  ( /\ ev.op = "OnReceiveComplete"
    /\ ev.count >= 1
    /\ ev.buf[1] % 16 # ev.la )
  => ev.calls = << >> /\ ev.after = ev.before

\* C5 witness: the device holds address 8, is off, and the power report
\* {0x04, 0x90, 0x00} addressed to 4 is delivered to it.
C5_Witness ==
  /\ ev.op = "OnReceiveComplete"
  /\ ev.la = 8
  /\ ev.count = 3
  /\ ev.buf = << 4, 144, 0 >>
  /\ ev.before.active = 0
  /\ active = 0

\* C6: the state machine is entered by one task at a time, from Run() and
\* the callbacks it raises: while the main loop is inside device.Run(), the
\* poll task is not inside device.TransmitFrame.
C6_SingleEntry ==
  ~(mainPc = "run" /\ pollPc \in {"check", "write"})

\* What holds of a transmission in every state: a pending one has used fewer
\* than MaxAttempts attempts; the OnTransmitComplete of an unacknowledged
\* directed frame reports MaxAttempts attempts and issues no call.
C7_Safety ==
  /\ xmit.attempts < MaxAttempts
  /\ ( ev.op = "OnTransmitComplete" /\ Directed(ev.buf[1]) /\ ~ev.ack
         => ev.attempts = MaxAttempts /\ ev.calls = << >> )

\* A step raising OnTransmitComplete takes the pending transmission out of
\* the state machine.
C7_CompletesOnce ==
  ev'.op = "OnTransmitComplete" /\ mainPc = "run" /\ mainPc' = "loop"
    => xmit # NoXmit /\ xmit' = NoXmit

\* C7: a transmission of a directed frame that is never acknowledged ends
\* failed after exactly MaxAttempts attempts: a pending transmission has used
\* fewer attempts than that, its OnTransmitComplete reports the failure on
\* the last attempt, is raised once (it takes the transmission out of the
\* state machine) and does not send the frame again; and every pending
\* transmission ends.
C7_RetryBound ==
  /\ []C7_Safety
  /\ [][C7_CompletesOnce]_vars
  /\ (xmit # NoXmit ~> xmit = NoXmit)

\* C7 witness: the volume-up frame, sent to address 0, ended without an ACK.
C7_Witness ==
  /\ ev.op = "OnTransmitComplete"
  /\ ~ev.ack
  /\ ev.attempts = MaxAttempts
  /\ Directed(ev.buf[1])
  /\ ev.buf[2] = 70
  /\ xmit = NoXmit

\* Every candidate has been polled and every poll was ACKed.
AllPollsAcked ==
  /\ Len(polled) = Len(Candidates)
  /\ \A i \in 1..Len(polled) : polled[i].ack

\* Each candidate is polled at most once, in the candidate order; the
\* allocation has failed exactly when all polls were ACKed, and then no
\* address is held and OnReady was not raised.
C8_Safety ==
  /\ Len(polled) <= Len(Candidates)
  /\ \A i \in 1..Len(polled) : polled[i].addr = Candidates[i]
  /\ AllPollsAcked <=> primaryState = "failed"
  /\ primaryState = "failed" => logicalAddress = NoAddress /\ readyCount = 0

\* C8: when every candidate of the device's type answers its poll with an
\* ACK, allocation ends failed after one poll of each candidate, in order,
\* and no logical address is claimed; an allocation never goes on for ever.
C8_ExhaustionFails ==
  /\ []C8_Safety
  /\ (primaryState = "allocating" ~> primaryState \in {"ready", "failed"})

\* C8 witness: the three candidates 4, 8, 11 were polled and all ACKed.
C8_Witness ==
  /\ primaryState = "failed"
  /\ Len(polled) = 3
  /\ AllPollsAcked
  /\ mainPc = "run"

\* C9: the allocator claims the first candidate, in the candidate order,
\* whose poll got no ACK, never one whose poll was ACKed; OnReady is invoked
\* once, with the claimed address, and LogicalAddress() returns it from then on.
C9_ClaimsFirstFree ==
  /\ readyCount <= 1
  /\ (primaryState = "ready") = (readyCount = 1)
  /\ (logicalAddress # NoAddress) = (primaryState = "ready")
  /\ primaryState = "ready" =>
       /\ polled # << >>
       /\ logicalAddress = Candidates[Len(polled)]
       /\ polled[Len(polled)] = [addr |-> logicalAddress, ack |-> FALSE]
       /\ \A i \in 1..(Len(polled) - 1) :
            polled[i] = [addr |-> Candidates[i], ack |-> TRUE]
  /\ \A i \in 1..Len(polled) : polled[i].ack => polled[i].addr # logicalAddress
  /\ ev.op = "OnReady" => ev.la = logicalAddress

\* C9 witness: 4 and 8 were ACKed, 11 was not and is claimed.
C9_Witness ==
  /\ ev.op = "OnReady"
  /\ logicalAddress = 11
  /\ Len(polled) = 3
  /\ polled[1].ack /\ polled[2].ack

\* The addresses found in use by the polls made so far.
FoundInUse == { polled[i].addr : i \in { k \in 1..Len(polled) : polled[k].ack } }

\* C10: after setup() has called Initialize twice with the same arguments,
\* the device claims the address one allocation run claims on the same bus,
\* starting from the first candidate, and holds exactly that one address.
C10_DoubleInitialize ==
  /\ initCount < 2 => polled = << >> /\ logicalAddress = NoAddress
  /\ (initCount = 2 /\ primaryState = "ready") =>
       /\ logicalAddress = AllocFrom(1, FoundInUse)
       /\ Claimed(logicalAddress)
       /\ readyCount = 1
  /\ (initCount = 2 /\ polled # << >>) => polled[1].addr = Candidates[1]

\* C10 witness: after the second Initialize the first candidate is free and
\* is the address held.
C10_Witness ==
  /\ initCount = 2
  /\ primaryState = "ready"
  /\ polled = << [addr |-> 4, ack |-> FALSE] >>
  /\ logicalAddress = 4

-----------------------------------------------------------------------------
(* Writes to the television *)

OneByte(c) == c.count = 1
TwoByte(c) == c.count = 2

\* C11: a write of Active makes update() issue exactly one one-byte frame,
\* {0x0D} to destination 0x0 for a non-zero value and {0x36} to destination
\* 0xF for zero; an update() in which Active was not written issues no
\* one-byte frame at all.
C11_PowerFrames ==
  ev.op = "tv" =>
    LET power == SelectSeq(ev.calls, OneByte) IN
    /\ (ev.in.active.updated /\ ev.in.active.newVal # 0)
          => power = << Call(0, << 13 >>, 1) >>
    /\ (ev.in.active.updated /\ ev.in.active.newVal = 0)
          => power = << Call(15, << 54 >>, 1) >>
    /\ ~ev.in.active.updated => power = << >>
    /\ (ev.in.active.updated /\ ~ev.in.remoteKey.updated) => ev.calls = power

\* A power-on write made together with the UP key has issued its two calls and
\* is still under way.
C11_Witness ==
  /\ ev.op = "tv"
  /\ ev.in.active = Upd(1)
  /\ ev.in.remoteKey = Upd(4)
  /\ Len(ev.calls) = 2
  /\ active = 0

C12_KeyCode ==
  [ k \in MappedKeys |->
      CASE k = 4 -> 1  [] k = 5 -> 2  [] k = 6 -> 3  [] k = 7 -> 4
        [] k = 8 -> 68 [] k = 9 -> 9  [] k = 11 -> 68 [] k = 15 -> 53 ]

\* C12: a write of a mapped remote key (4, 5, 6, 7, 8, 9, 11, 15) makes
\* update() issue exactly one frame for the key: destination 0x48, two bytes,
\* the first 0x44 and the second the key code of that key; written alone, the
\* key causes no other call.
C12_MappedKeyFrames ==
  (ev.op = "tv" /\ ev.in.remoteKey.updated /\ ev.in.remoteKey.newVal \in MappedKeys) =>
    LET keys == SelectSeq(ev.calls, TwoByte) IN
    /\ Len(keys) = 1
    /\ keys[1].dest = 72
    /\ keys[1].count = 2
    /\ keys[1].buf = << 68, C12_KeyCode[ev.in.remoteKey.newVal] >>
    /\ Len(ev.calls) = (IF ev.in.active.updated THEN 2 ELSE 1)

\* The frame of the INFO key is in the transmission slot of a device that
\* claimed address 4.
C12_Witness ==
  /\ ev.op = "tv"
  /\ ev.in = TVIn(Unch, Unch, Unch, Upd(15))
  /\ logicalAddress = 4
  /\ xmit.hdr = 72
  /\ xmit.buf = << 68, 53 >>

\* C13: a write of a remote key outside the mapped set makes update() issue
\* no frame for the key, and written alone it issues no call, leaves the
\* transmission slot and the application state as they were, and returns
\* true.
C13_UnmappedKeysIgnored ==
  /\ []( (ev.op = "tv" /\ ev.in.remoteKey.updated
                       /\ ev.in.remoteKey.newVal \notin MappedKeys)
          => (SelectSeq(ev.calls, TwoByte) = << >> /\ ev.ret) )
  /\ [][ ( /\ pollPc = "idle"
            /\ mainPc' = mainPc
            /\ ev'.op = "tv"
            /\ ev'.in.remoteKey.updated
            /\ ev'.in.remoteKey.newVal \notin MappedKeys
            /\ ~ev'.in.active.updated )
          => ( /\ ev'.calls = << >>
               /\ ev'.ret
               /\ pollPc' = "idle"
               /\ pollQ' = << >>
               /\ xmit' = xmit
               /\ UNCHANGED appVars ) ]_vars

\* The unmapped key 10 has been written while the power-on flag was set.
C13_Witness ==
  /\ ev.op = "tv"
  /\ ev.in = TVIn(Unch, Unch, Unch, Upd(10))
  /\ primaryState = "ready"
  /\ active = 1
  /\ pollPc = "idle"

-----------------------------------------------------------------------------
(* Inbound frames *)

\* The opcode of a received frame: its second byte, when it has one.
FrameOpcode(buf, count) == IF count >= 2 THEN buf[2] ELSE -1

\* C14: for an inbound frame addressed to the device OnReceiveComplete issues
\* at most one frame: the vendor ID {0x87, 0x01, 0x23, 0x45} to the broadcast
\* address for opcode 0x8C, the name {0x47, 0x52, 0x44, 0x4D} for opcode 0x46,
\* the physical-address report for opcode 0x83, and none for a frame with any
\* other opcode or with none.
C14_AtMostOneReply ==
  (ev.op = "OnReceiveComplete" /\ ev.count >= 1 /\ ev.buf[1] % 16 = ev.la) =>
    LET opcode == FrameOpcode(ev.buf, ev.count) IN
    /\ Len(ev.calls) <= 1
    /\ opcode = 140 => ev.calls = << Call(15, << 135, 1, 35, 69 >>, 4) >>
    /\ opcode = 70  => ( /\ Len(ev.calls) = 1
                         /\ ev.calls[1].buf = << 71, 82, 68, 77 >>
                         /\ ev.calls[1].count = 4 )
    /\ opcode = 131 => ev.calls = << ReportCall >>
    /\ opcode \notin {140, 70, 131} => ev.calls = << >>

\* C15: OnReceiveComplete reads the receive buffer only at indices below
\* count.
C15_ReadsWithinCount ==
  ev.op = "OnReceiveComplete" =>
    \A i \in ReceiveReads(ev.buf, ev.count, ev.la) : i < ev.count

-----------------------------------------------------------------------------
(* Order of initialization *)

C17_ConnectedTVSet ==
  /\ mainPc # "crashed"
  /\ (ev.op = "OnReceiveComplete"
        /\ OnReceiveComplete(ev.buf, ev.count, ev.ack, ev.la, ev.before).deref)
       => connectedTV = "tv"
  /\ connectedTV = "null" => (ev = NoEvent /\ mainPc \notin {"loop", "run"})

\* The power report has been handled at address 4 and has set the flag
\* through connectedTV.
C17_Witness ==
  /\ ev.op = "OnReceiveComplete"
  /\ ev.la = 4
  /\ ev.buf = << 4, 144, 0 >>
  /\ ev.count = 3
  /\ ev.before.active = 0
  /\ active = 1
  /\ connectedTV = "tv"

-----------------------------------------------------------------------------
(* Application state *)

\* C18: an inbound frame changes nothing of the application state except
\* that it may set the power-on flag: OnReceiveComplete leaves the active
\* input and the volume alone and never clears the flag, no step of the main
\* task does, and the flag goes from set to clear only when update() returns
\* from a write of Active = 0.
C18_FramesOnlySetPowerOn ==
  /\ []( ev.op = "OnReceiveComplete"
          => ( /\ ev.after.activeID = ev.before.activeID
               /\ ev.after.volume = ev.before.volume
               /\ ev.after.active \in {ev.before.active, 1} ) )
  /\ [][ mainPc' # mainPc
          => ( /\ activeID' = activeID
               /\ volume' = volume
               /\ active' \in {active, 1} ) ]_vars
  /\ [][ (active = 1 /\ active' # 1)
          => ( /\ mainPc' = mainPc
               /\ pollIn.svc = "tv"
               /\ pollIn.active = Upd(0)
               /\ pollPc' = "idle" ) ]_vars

\* With the flag set, the device at address 4 has received the power report
\* "standby", and the flag is still set.
C18_Witness ==
  /\ ev.op = "OnReceiveComplete"
  /\ ev.la = 4
  /\ ev.buf = << 4, 144, 1 >>
  /\ ev.count = 3
  /\ ev.before.active = 1
  /\ active = 1

\* C19: when TransmitFrame returns failure to update(), update() makes no
\* second attempt at that frame and sends nothing, goes on to its next call
\* if it has one, and otherwise returns true, so that the written values are
\* taken over; every update() returns true.
C19_FailureIgnored ==
  /\ []( ev.op \in {"speaker", "tv"} => ev.ret )
  /\ [][ (pollPc = "check" /\ pollPc' # "write" /\ mainPc' = mainPc)
          => ( /\ xmit' = xmit
               /\ pollQ' = Tail(pollQ)
               /\ pollQ' # << >> => (pollPc' = "check" /\ UNCHANGED appVars)
               /\ pollQ' = << >>
                    => ( /\ pollPc' = "idle"
                         /\ activeID' = activeID
                         /\ pollIn.svc = "tv"
                              => ( /\ volume' = volume
                                   /\ active' = IF pollIn.active.updated
                                                   THEN pollIn.active.newVal
                                                   ELSE active )
                         /\ pollIn.svc = "speaker"
                              => ( /\ active' = active
                                   /\ volume' = pollIn.volume.newVal ) ) ) ]_vars

\* Address allocation has failed, so that no frame can have been sent or
\* received, and a power-on write has set the power-on flag.
C19_Witness ==
  /\ primaryState = "failed"
  /\ ev.op = "tv"
  /\ ev.in.active = Upd(1)
  /\ pollPc = "idle"
  /\ xmit = NoXmit
  /\ active = 1

\* The payload update() sends for a mapped remote key written alone.
KeyPayload(k) == HomeSpanTV_update(TVIn(Unch, Unch, Unch, Upd(k))).calls[1].buf

\* C20: two distinct mapped remote keys make update() send different
\* payloads: once the frame of a mapped key is in the transmission slot, no
\* other mapped key would have put the same payload there.
C20_KeyMappingInjective ==
  (ev.op = "tv" /\ ev.in.remoteKey.updated /\ ev.in.remoteKey.newVal \in MappedKeys
     /\ xmit # NoXmit /\ xmit.buf = KeyPayload(ev.in.remoteKey.newVal))
    => \A k \in MappedKeys \ {ev.in.remoteKey.newVal} : KeyPayload(k) # xmit.buf


=============================================================================
